---- MODULE Spec2Model ----
(***************************************************************************)
(* The three project.pbxproj patch scripts of DJVUReader-iOS:              *)
(*   configure_xcode_project.py, configure_conditional_linking.py and      *)
(*   configure_xcframework.py.                                             *)
(*                                                                         *)
(* A document is a sequence of tokens.  A token is a literal piece of the  *)
(* file's text.  The characters the scripts' patterns are sensitive to     *)
(* (";", "}", "(", ")" and the newline) occur only as tokens of their own  *)
(* (a newline token carries the indentation that follows it), "{" occurs   *)
(* only as the last character of an opening token, and the literals the    *)
(* patterns name (the setting keys with their " = ", "buildSettings = {",  *)
(* the block anchors) are single tokens, so that matching a pattern on the *)
(* tokens is matching it on the text.                                      *)
(***************************************************************************)
EXTENDS Naturals, Sequences, FiniteSets

\* ------------------------------------------------------------------ bounds
MaxSettings == 2
MaxRuns == 2

\* ------------------------------------------------------------------ tokens
NL0 == "\n"
NL2 == "\n\t\t"
NL3 == "\n\t\t\t"
NL4 == "\n\t\t\t\t"
NL5 == "\n\t\t\t\t\t"
NewlineTokens == {NL0, NL2, NL3, NL4, NL5}
IsNL(t) == t \in NewlineTokens
\* what is left of a newline token once its newline character is removed
Tabs(t) ==
  CASE t = NL2 -> <<"\t\t">>
    [] t = NL3 -> <<"\t\t\t">>
    [] t = NL4 -> <<"\t\t\t\t">>
    [] t = NL5 -> <<"\t\t\t\t\t">>
    [] OTHER -> <<>>

SEMI == ";"
COMMA == ","
LPAREN == "("
RPAREN == ")"
RBRACE == "}"
ROOT_OPEN == "{"
BUILD_SETTINGS == "buildSettings = {"
ISA_CONFIG == "isa = XCBuildConfiguration"
DEBUG_OPEN == "E0C520F82DF4C8C7009D84A3 /* Debug */ = {"
RELEASE_OPEN == "E0C520F92DF4C8C7009D84A3 /* Release */ = {"
LIBREF_OPEN == "E0C521A02DF4D0A1009D84A3 /* libdjvulibre.a */ = {"
LIBSIMREF_OPEN == "E0C521A12DF4D0A1009D84A3 /* libdjvulibre_simulator.a */ = {"
ISA_FILEREF == "isa = PBXFileReference"
HSP_COMMENT == "/* HEADER_SEARCH_PATHS are set per configuration */"
UTF8_HEADER == "// !$*UTF8*$!"

K_HEADER == "HEADER_SEARCH_PATHS = "
K_LIBRARY == "LIBRARY_SEARCH_PATHS = "
K_LDFLAGS == "OTHER_LDFLAGS = "
K_FRAMEWORK == "FRAMEWORK_SEARCH_PATHS = "
K_BRIDGING == "SWIFT_OBJC_BRIDGING_HEADER = "

OTHER_SETTING == "SDKROOT = iphoneos"
INHERITED == "\"$(inherited)\","
LDJVU_ELEM == "\"-ldjvulibre\","
QUOTED_HEAD == "\"$(SRCROOT)/a"
QUOTED_TAIL == "b\","

OpenBrace ==
  {ROOT_OPEN, BUILD_SETTINGS, DEBUG_OPEN, RELEASE_OPEN, LIBREF_OPEN, LIBSIMREF_OPEN}


\* --------------------------------------------------- the scripts' literals
\* configure_xcode_project.py
X_HEADER_VALUE == "\"$(SRCROOT)/DJVUReader-iOS/LibDJVU/include\""
X_LIBRARY_VALUE == "\"$(SRCROOT)/DJVUReader-iOS/LibDJVU/lib\""
X_LDFLAGS_VALUE == "\"-ldjvulibre\""
bridging_header_path == "\"DJVUReader-iOS/LibDJVU/DJVUReader-iOS-Bridging-Header.h\""
\* configure_xcframework.py
xcframework_header_path == "\"$(SRCROOT)/DJVUReader-iOS/LibDJVU/libdjvulibre.xcframework/ios-arm64/libdjvulibre.framework/Headers\""
xcframework_ldflags == "\"-framework libdjvulibre\""
framework_search_path == "\"$(SRCROOT)/DJVUReader-iOS/LibDJVU\""
\* configure_conditional_linking.py
DJVU_FLAG_ELEM == "\"$(DJVU_LIBRARY_FLAG)\","
FLAG_DEVICE == "\"DJVU_LIBRARY_FLAG[sdk=iphoneos*]\" = \"-ldjvulibre_device\""
FLAG_SIMULATOR == "\"DJVU_LIBRARY_FLAG[sdk=iphonesimulator*]\" = \"-ldjvulibre_simulator\""
debug_pattern ==
  <<K_LDFLAGS, LPAREN, NL5, INHERITED, NL5, LDJVU_ELEM, NL4, RPAREN, SEMI>>
release_pattern ==
  <<K_LDFLAGS, LPAREN, NL5, INHERITED, NL5, LDJVU_ELEM, NL4, RPAREN, SEMI>>
conditional_ldflags ==
  <<K_LDFLAGS, LPAREN, NL5, INHERITED, NL5, DJVU_FLAG_ELEM, NL4, RPAREN, SEMI>>
debug_build_start == <<DEBUG_OPEN, NL3, ISA_CONFIG, SEMI, NL3, BUILD_SETTINGS>>
release_build_start == <<RELEASE_OPEN, NL3, ISA_CONFIG, SEMI, NL3, BUILD_SETTINGS>>
FlagLines == <<NL4, FLAG_DEVICE, SEMI, NL4, FLAG_SIMULATOR, SEMI>>
debug_replacement == debug_build_start \o FlagLines
release_replacement == release_build_start \o FlagLines

\* The tokens whose text has the given name as a substring (Python's `in`, and
\* the literal part of the line-removal patterns).
Mentions(name) ==
  CASE name = "HEADER_SEARCH_PATHS" -> {K_HEADER, HSP_COMMENT}
    [] name = "LIBRARY_SEARCH_PATHS" -> {K_LIBRARY}
    [] name = "OTHER_LDFLAGS" -> {K_LDFLAGS}
    [] name = "FRAMEWORK_SEARCH_PATHS" -> {K_FRAMEWORK}
    [] name = "SWIFT_OBJC_BRIDGING_HEADER" -> {K_BRIDGING}
    [] name = "-ldjvulibre" ->
         {X_LDFLAGS_VALUE, LDJVU_ELEM, FLAG_DEVICE, FLAG_SIMULATOR}
    [] name = "libdjvulibre.a" -> {LIBREF_OPEN}
    [] name = "libdjvulibre_simulator.a" -> {LIBSIMREF_OPEN}
    [] OTHER -> {}

\* name in content
Contains(c, name) == \E i \in 1..Len(c) : c[i] \in Mentions(name)

\* ------------------------------------------------- str.replace, `in`
MatchAt(c, p, i) ==
  /\ i + Len(p) - 1 <= Len(c)
  /\ \A k \in 1..Len(p) : c[i + k - 1] = p[k]

\* p in content
Occurs(c, p) == \E i \in 1..Len(c) : MatchAt(c, p, i)

RECURSIVE ReplaceFrom(_, _, _, _)
ReplaceFrom(c, p, r, i) ==
  IF i > Len(c) THEN <<>>
  ELSE IF MatchAt(c, p, i) THEN r \o ReplaceFrom(c, p, r, i + Len(p))
  ELSE <<c[i]>> \o ReplaceFrom(c, p, r, i + 1)

RECURSIVE ReplaceOnceFrom(_, _, _, _)
ReplaceOnceFrom(c, p, r, i) ==
  IF i > Len(c) THEN <<>>
  ELSE IF MatchAt(c, p, i) THEN r \o SubSeq(c, i + Len(p), Len(c))
  ELSE <<c[i]>> \o ReplaceOnceFrom(c, p, r, i + 1)

\* content.replace(p, r, 1): only the first occurrence
ReplaceFirst(c, p, r) == ReplaceOnceFrom(c, p, r, 1)

\* content.replace(p, r): every occurrence, left to right
ReplaceAll(c, p, r) == ReplaceFrom(c, p, r, 1)

\* ------------------------------------------------------------ re.sub
\* The first index >= i of a token in S, Len(c) + 1 when there is none.
RECURSIVE FirstIn(_, _, _)
FirstIn(c, i, S) ==
  IF i > Len(c) THEN Len(c) + 1
  ELSE IF c[i] \in S THEN i
  ELSE FirstIn(c, i + 1, S)

\* r'(buildSettings = \{[^}]*?);' at i: the end of the match, 0 for no match.
\* The lazy [^}]*? stops at the first ";" and cannot pass a "}".
SettingsMatchEnd(c, i) ==
  IF c[i] # BUILD_SETTINGS THEN 0
  ELSE LET j == FirstIn(c, i + 1, {SEMI, RBRACE})
       IN IF j <= Len(c) /\ c[j] = SEMI THEN j ELSE 0

\* re.sub(settings_pattern, add_xxx, content): group 1 followed by `line`
RECURSIVE InsertFrom(_, _, _)
InsertFrom(c, line, i) ==
  IF i > Len(c) THEN <<>>
  ELSE LET j == SettingsMatchEnd(c, i)
       IN IF j = 0 THEN <<c[i]>> \o InsertFrom(c, line, i + 1)
          ELSE SubSeq(c, i, j - 1) \o line \o InsertFrom(c, line, j + 1)

InsertSetting(c, line) == InsertFrom(c, line, 1)

\* r'KEY = [^;]*;' at i: the end of the match, 0 for no match.
AssignMatchEnd(c, key, i) ==
  IF c[i] # key THEN 0
  ELSE LET j == FirstIn(c, i + 1, {SEMI})
       IN IF j <= Len(c) THEN j ELSE 0

\* re.search(r'KEY = [^;]*;', content)
SearchAssign(c, key) == \E i \in 1..Len(c) : AssignMatchEnd(c, key, i) # 0

\* re.sub(r'KEY = [^;]*;', 'KEY = value;', content)
RECURSIVE SubAssignFrom(_, _, _, _)
SubAssignFrom(c, key, value, i) ==
  IF i > Len(c) THEN <<>>
  ELSE LET j == AssignMatchEnd(c, key, i)
       IN IF j = 0 THEN <<c[i]>> \o SubAssignFrom(c, key, value, i + 1)
          ELSE <<key, value, SEMI>> \o SubAssignFrom(c, key, value, j + 1)

SubAssign(c, key, value) == SubAssignFrom(c, key, value, 1)

\* re.sub(r'(KEY = [^;]*);', r'\1,\n\t\t\t\tvalue;', content)
RECURSIVE AppendAssignFrom(_, _, _, _)
AppendAssignFrom(c, key, value, i) ==
  IF i > Len(c) THEN <<>>
  ELSE LET j == AssignMatchEnd(c, key, i)
       IN IF j = 0 THEN <<c[i]>> \o AppendAssignFrom(c, key, value, i + 1)
          ELSE SubSeq(c, i, j - 1) \o <<COMMA, NL4, value, SEMI>>
                 \o AppendAssignFrom(c, key, value, j + 1)

AppendAssign(c, key, value) == AppendAssignFrom(c, key, value, 1)

\* r'KEY = [^;]*;\n' at i: the index of the newline token that ends the match,
\* 0 for no match.
AssignLineMatchEnd(c, key, i) ==
  LET j == AssignMatchEnd(c, key, i)
  IN IF j # 0 /\ j + 1 <= Len(c) /\ IsNL(c[j + 1]) THEN j + 1 ELSE 0

\* re.search(r'KEY = [^;]*;\n', content)
SearchAssignLine(c, key) ==
  \E i \in 1..Len(c) : AssignLineMatchEnd(c, key, i) # 0

\* re.sub(r'KEY = [^;]*;\n', '', content): the newline goes, the indentation
\* after it stays.
RECURSIVE RemoveAssignFrom(_, _, _)
RemoveAssignFrom(c, key, i) ==
  IF i > Len(c) THEN <<>>
  ELSE LET j == AssignLineMatchEnd(c, key, i)
       IN IF j = 0 THEN <<c[i]>> \o RemoveAssignFrom(c, key, i + 1)
          ELSE Tabs(c[j]) \o RemoveAssignFrom(c, key, j + 1)

RemoveAssignLine(c, key) == RemoveAssignFrom(c, key, 1)

\* r'[^\n]*NAME[^\n]*\n': a line is matched when it mentions NAME and a newline
\* ends it.  A line starts at a newline token i (at 0 for the first line) and
\* runs to the next newline token e: its text is the indentation of c[i], the
\* tokens between i and e, and the newline character of c[e].
LineEnd(c, i) == FirstIn(c, i + 1, NewlineTokens)

LineMentions(c, name, i) ==
  \E k \in (i + 1)..(LineEnd(c, i) - 1) : c[k] \in Mentions(name)

\* re.search(r'[^\n]*NAME[^\n]*\n', content)
SearchLine(c, name) ==
  \E k \in 1..Len(c) : c[k] \in Mentions(name) /\ LineEnd(c, k) <= Len(c)

\* re.sub(r'[^\n]*NAME[^\n]*\n', '', content).  nl says that a newline
\* character has been kept and the indentation of c[i] is to follow it.
RECURSIVE RemoveLinesFrom(_, _, _, _)
RemoveLinesFrom(c, name, i, nl) ==
  LET e == LineEnd(c, i)
      lead == IF i = 0 THEN <<>> ELSE IF nl THEN <<c[i]>> ELSE Tabs(c[i])
  IN IF e > Len(c) THEN lead \o SubSeq(c, i + 1, Len(c))
     ELSE IF LineMentions(c, name, i) THEN RemoveLinesFrom(c, name, e, nl)
     ELSE lead \o SubSeq(c, i + 1, e - 1) \o RemoveLinesFrom(c, name, e, TRUE)

RemoveLines(c, name) == RemoveLinesFrom(c, name, 0, FALSE)


\* ------------------------------------------------------------ the state
Scripts == {"xcode_project", "conditional_linking", "xcframework"}

project_path == "project.pbxproj"
\* backup_path = project_path: the suffix forgotten
backup_path_unsuffixed(s) == project_path

\* backup_path = project_path + suffix
backup_path(s) ==
  CASE s = "xcode_project" -> "project.pbxproj.backup"
    [] s = "conditional_linking" -> "project.pbxproj.conditional_backup"
    [] s = "xcframework" -> "project.pbxproj.xcframework_backup"
Paths == {project_path} \cup {backup_path(s) : s \in Scripts}
\* a path's state: no file there, or a file with its text
NoFile == [exists |-> FALSE, text |-> <<>>]
File(text) == [exists |-> TRUE, text |-> text]

VARIABLES
  script,    \* which of the three scripts the process runs
  run,       \* 1 for the first run of the script, 2 for its re-run, ...
  pc,        \* the position in configure_xcode_project()
  fs,        \* the files: path -> File(text) or NoFile
  content,   \* the local `content`
  loaded,    \* the text f.read() returned in this run
  modified,  \* the local `modified`
  report     \* the status lines printed in this run

vars == <<script, run, pc, fs, content, loaded, modified, report>>

\* --------------------------------------------------------- the documents
S_OTHER == <<NL4, OTHER_SETTING, SEMI>>
S_HEADER_LIST == <<NL4, K_HEADER, LPAREN, NL5, INHERITED, NL4, RPAREN, SEMI>>
S_HEADER_QUOTED ==
  <<NL4, K_HEADER, LPAREN, QUOTED_HEAD, SEMI, QUOTED_TAIL, RPAREN, SEMI>>
S_LDFLAGS_STATIC == <<NL4>> \o debug_pattern
S_LIBRARY == <<NL4, K_LIBRARY, X_LIBRARY_VALUE, SEMI>>
Settings ==
  <<S_OTHER, S_HEADER_LIST, S_HEADER_QUOTED, S_LDFLAGS_STATIC, S_LIBRARY>>

\* The settings of a table: at most MaxSettings of Settings, in that order.
Picks ==
  {p \in UNION {[1..n -> 1..Len(Settings)] : n \in 0..MaxSettings} :
     \A i \in 1..Len(p) : \A j \in 1..Len(p) : i < j => p[i] < p[j]}

RECURSIVE Flatten(_)
Flatten(p) ==
  IF p = <<>> THEN <<>> ELSE Settings[Head(p)] \o Flatten(Tail(p))

BlockTail == <<NL3, RBRACE, SEMI, NL2, RBRACE, SEMI>>
Block(start, p) == <<NL2>> \o start \o Flatten(p) \o BlockTail
DocHead == <<UTF8_HEADER, NL0, ROOT_OPEN>>
DocFoot == <<NL0, RBRACE, NL0>>
PreLibs ==
  <<NL2, LIBREF_OPEN, ISA_FILEREF, SEMI, RBRACE, SEMI,
    NL2, LIBSIMREF_OPEN, ISA_FILEREF, SEMI, RBRACE, SEMI>>
PreComment == <<NL2, HSP_COMMENT>>
Pres == {<<>>, PreLibs, PreComment}
DebugBlocks == {<<>>} \cup {Block(debug_build_start, p) : p \in Picks}
ReleaseBlocks == {<<>>} \cup {Block(release_build_start, p) : p \in Picks}
Docs ==
  {DocHead \o pre \o d \o r \o DocFoot :
     pre \in Pres, d \in DebugBlocks, r \in ReleaseBlocks}

Init ==
  /\ script \in Scripts
  /\ run = 1
  /\ pc = "start"
  /\ \E d \in {File(t) : t \in Docs} \cup {NoFile} :
       fs = [p \in Paths |-> IF p = project_path THEN d ELSE NoFile]
  /\ content = <<>>
  /\ loaded = <<>>
  /\ modified = FALSE
  /\ report = {}

\* ------------------------------------------------- the common first steps
\* open(path, 'w') and f.write(text)
WriteFile(f, path, text) == [f EXCEPT ![path] = File(text)]

FirstStep(s) ==
  CASE s = "xcode_project" -> "x_header"
    [] s = "conditional_linking" -> "c_debug_ldflags"
    [] s = "xcframework" -> "f_old_libs"

\* if not os.path.exists(project_path): return False
Start ==
  /\ pc = "start"
  /\ pc' = IF ~fs[project_path].exists THEN "notfound" ELSE "read"
  /\ report' = IF ~fs[project_path].exists
               THEN {"Project file not found"} ELSE {"Configuring"}
  /\ UNCHANGED <<script, run, fs, content, loaded, modified>>

\* with open(project_path, 'r') as f: content = f.read()
Read ==
  /\ pc = "read"
  /\ content' = fs[project_path].text
  /\ loaded' = fs[project_path].text
  /\ pc' = "backup"
  /\ UNCHANGED <<script, run, fs, modified, report>>

\* with open(backup_path, 'w') as f: f.write(content); modified = False
Backup ==
  /\ pc = "backup"
  /\ fs' = WriteFile(fs, backup_path(script), content)
  /\ report' = report \cup {"Created backup"}
  /\ modified' = FALSE
  /\ pc' = FirstStep(script)
  /\ UNCHANGED <<script, run, content, loaded>>


\* the text a settings-pattern callback appends to group 1
SettingLine(key, value) == <<NL4, key, value, SEMI>>

\* ------------------------------------------- configure_xcode_project.py
\* Add header search paths
X_Header ==
  /\ pc = "x_header"
  /\ IF ~Contains(content, "HEADER_SEARCH_PATHS")
     THEN /\ content' = InsertSetting(content, SettingLine(K_HEADER, X_HEADER_VALUE))
          /\ modified' = TRUE
          /\ report' = report \cup {"Added HEADER_SEARCH_PATHS"}
     ELSE IF SearchAssign(content, K_HEADER)
     THEN /\ content' = AppendAssign(content, K_HEADER, X_HEADER_VALUE)
          /\ modified' = TRUE
          /\ report' = report \cup {"Updated HEADER_SEARCH_PATHS"}
     ELSE UNCHANGED <<content, modified, report>>
  /\ pc' = "x_library"
  /\ UNCHANGED <<script, run, fs, loaded>>

\* Add library search paths
X_Library ==
  /\ pc = "x_library"
  /\ IF ~Contains(content, "LIBRARY_SEARCH_PATHS")
     THEN /\ content' = InsertSetting(content, SettingLine(K_LIBRARY, X_LIBRARY_VALUE))
          /\ modified' = TRUE
          /\ report' = report \cup {"Added LIBRARY_SEARCH_PATHS"}
     ELSE UNCHANGED <<content, modified, report>>
  /\ pc' = "x_ldflags"
  /\ UNCHANGED <<script, run, fs, loaded>>

\* Add linking flags for djvulibre
X_Ldflags ==
  /\ pc = "x_ldflags"
  /\ IF ~Contains(content, "OTHER_LDFLAGS")
     THEN /\ content' = InsertSetting(content, SettingLine(K_LDFLAGS, X_LDFLAGS_VALUE))
          /\ modified' = TRUE
          /\ report' = report \cup {"Added OTHER_LDFLAGS for djvulibre"}
     ELSE IF SearchAssign(content, K_LDFLAGS) /\ ~Contains(content, "-ldjvulibre")
     THEN /\ content' = AppendAssign(content, K_LDFLAGS, X_LDFLAGS_VALUE)
          /\ modified' = TRUE
          /\ report' = report \cup {"Updated OTHER_LDFLAGS for djvulibre"}
     ELSE UNCHANGED <<content, modified, report>>
  /\ pc' = "x_bridging"
  /\ UNCHANGED <<script, run, fs, loaded>>

\* Add bridging header path if not present
X_Bridging ==
  /\ pc = "x_bridging"
  /\ IF ~Contains(content, "SWIFT_OBJC_BRIDGING_HEADER")
     THEN /\ content' = InsertSetting(content, SettingLine(K_BRIDGING, bridging_header_path))
          /\ modified' = TRUE
          /\ report' = report \cup {"Added SWIFT_OBJC_BRIDGING_HEADER"}
     ELSE UNCHANGED <<content, modified, report>>
  /\ pc' = "write"
  /\ UNCHANGED <<script, run, fs, loaded>>

\* --------------------------------------- configure_conditional_linking.py
\* if debug_pattern in content: content = content.replace(...)
C_DebugLdflags ==
  /\ pc = "c_debug_ldflags"
  /\ IF Occurs(content, debug_pattern)
     THEN /\ content' = ReplaceAll(content, debug_pattern, conditional_ldflags)
          /\ report' = report \cup {"Updated Debug OTHER_LDFLAGS"}
     ELSE UNCHANGED <<content, report>>
  /\ pc' = "c_release_ldflags"
  /\ UNCHANGED <<script, run, fs, loaded, modified>>

\* if release_pattern in content: content = content.replace(...)
C_ReleaseLdflags ==
  /\ pc = "c_release_ldflags"
  /\ IF Occurs(content, release_pattern)
     THEN /\ content' = ReplaceAll(content, release_pattern, conditional_ldflags)
          /\ report' = report \cup {"Updated Release OTHER_LDFLAGS"}
     ELSE UNCHANGED <<content, report>>
  /\ pc' = "c_debug_flags"
  /\ UNCHANGED <<script, run, fs, loaded, modified>>

\* if debug_build_start in content: content = content.replace(...)
C_DebugFlags ==
  /\ pc = "c_debug_flags"
  /\ IF Occurs(content, debug_build_start)
     THEN /\ content' = ReplaceAll(content, debug_build_start, debug_replacement)
          /\ report' = report \cup {"Added conditional library flags for Debug"}
     ELSE UNCHANGED <<content, report>>
  /\ pc' = "c_release_flags"
  /\ UNCHANGED <<script, run, fs, loaded, modified>>

\* if release_build_start in content: content = content.replace(...)
C_ReleaseFlags ==
  /\ pc = "c_release_flags"
  /\ IF Occurs(content, release_build_start)
     THEN /\ content' = ReplaceAll(content, release_build_start, release_replacement)
          /\ report' = report \cup {"Added conditional library flags for Release"}
     ELSE UNCHANGED <<content, report>>
  /\ pc' = "write"
  /\ UNCHANGED <<script, run, fs, loaded, modified>>

\* ----------------------------------------------- configure_xcframework.py
\* one turn of `for pattern in old_lib_patterns`
RemoveOldLib(c, name) == IF SearchLine(c, name) THEN RemoveLines(c, name) ELSE c

\* Remove old static library references
F_OldLibs ==
  /\ pc = "f_old_libs"
  /\ LET hit1 == SearchLine(content, "libdjvulibre.a")
         c1 == RemoveOldLib(content, "libdjvulibre.a")
         hit2 == SearchLine(c1, "libdjvulibre_simulator.a")
         c2 == RemoveOldLib(c1, "libdjvulibre_simulator.a")
     IN /\ content' = c2
        /\ modified' = (modified \/ hit1 \/ hit2)
        /\ report' = IF hit1 \/ hit2
                     THEN report \cup {"Removed old static library references"}
                     ELSE report
  /\ pc' = "f_header"
  /\ UNCHANGED <<script, run, fs, loaded>>

\* Update header search paths to point to XCFramework
F_Header ==
  /\ pc = "f_header"
  /\ IF SearchAssign(content, K_HEADER)
     THEN /\ content' = SubAssign(content, K_HEADER, xcframework_header_path)
          /\ report' = report \cup {"Updated HEADER_SEARCH_PATHS for XCFramework"}
     ELSE /\ content' = InsertSetting(content, SettingLine(K_HEADER, xcframework_header_path))
          /\ report' = report \cup {"Added HEADER_SEARCH_PATHS for XCFramework"}
  /\ modified' = TRUE
  /\ pc' = "f_library"
  /\ UNCHANGED <<script, run, fs, loaded>>

\* Remove LIBRARY_SEARCH_PATHS since XCFramework doesn't need it
F_Library ==
  /\ pc = "f_library"
  /\ IF SearchAssignLine(content, K_LIBRARY)
     THEN /\ content' = RemoveAssignLine(content, K_LIBRARY)
          /\ modified' = TRUE
          /\ report' = report \cup {"Removed LIBRARY_SEARCH_PATHS"}
     ELSE UNCHANGED <<content, modified, report>>
  /\ pc' = "f_ldflags"
  /\ UNCHANGED <<script, run, fs, loaded>>

\* Update OTHER_LDFLAGS to use framework linking
F_Ldflags ==
  /\ pc = "f_ldflags"
  /\ IF SearchAssign(content, K_LDFLAGS)
     THEN /\ content' = SubAssign(content, K_LDFLAGS, xcframework_ldflags)
          /\ report' = report \cup {"Updated OTHER_LDFLAGS for XCFramework"}
     ELSE /\ content' = InsertSetting(content, SettingLine(K_LDFLAGS, xcframework_ldflags))
          /\ report' = report \cup {"Added OTHER_LDFLAGS for XCFramework"}
  /\ modified' = TRUE
  /\ pc' = "f_framework"
  /\ UNCHANGED <<script, run, fs, loaded>>

\* Add FRAMEWORK_SEARCH_PATHS
F_Framework ==
  /\ pc = "f_framework"
  /\ IF ~Contains(content, "FRAMEWORK_SEARCH_PATHS")
     THEN /\ content' = InsertSetting(content, SettingLine(K_FRAMEWORK, framework_search_path))
          /\ modified' = TRUE
          /\ report' = report \cup {"Added FRAMEWORK_SEARCH_PATHS"}
     ELSE UNCHANGED <<content, modified, report>>
  /\ pc' = "write"
  /\ UNCHANGED <<script, run, fs, loaded>>

\* ------------------------------------------------------ the last steps
PatchSteps ==
  {"x_header", "x_library", "x_ldflags", "x_bridging",
   "c_debug_ldflags", "c_release_ldflags", "c_debug_flags", "c_release_flags",
   "f_old_libs", "f_header", "f_library", "f_ldflags", "f_framework"}

\* xcode_project and xcframework write under `if modified:`;
\* conditional_linking writes in every run.
WritesBack(s, m) == s = "conditional_linking" \/ m

\* with open(project_path, 'w') as f: f.write(content); return True
WriteBack ==
  /\ pc = "write"
  /\ IF WritesBack(script, modified)
     THEN /\ fs' = WriteFile(fs, project_path, content)
          /\ report' = report \cup {"Project configuration updated"}
     ELSE /\ fs' = fs
          /\ report' = report \cup {"No changes needed"}
  /\ pc' = "done"
  /\ UNCHANGED <<script, run, content, loaded, modified>>

\* An exception leaves configure_xcode_project() at the point it is raised:
\* open() or read() of the project file, open() or write() of the backup (the
\* file is left as it was, or truncated by open(..., 'w')), an interrupt while
\* patching, open() or write() of the project file at the end.
Fail ==
  /\ pc \in {"read", "backup", "write"} \cup PatchSteps
  /\ \E truncated \in BOOLEAN :
       fs' = IF ~truncated \/ pc \in {"read"} \cup PatchSteps THEN fs
             ELSE IF pc = "backup" THEN WriteFile(fs, backup_path(script), <<>>)
             ELSE IF WritesBack(script, modified)
                  THEN WriteFile(fs, project_path, <<>>)
             ELSE fs
  /\ pc' = "failed"
  /\ UNCHANGED <<script, run, content, loaded, modified, report>>

\* The same script is started again on the files the run before it left.
Rerun ==
  /\ pc = "done"
  /\ run < MaxRuns
  /\ run' = run + 1
  /\ pc' = "start"
  /\ content' = <<>>
  /\ loaded' = <<>>
  /\ modified' = FALSE
  /\ report' = {}
  /\ UNCHANGED <<script, fs>>

Next ==
  \/ Start
  \/ Read
  \/ Backup
  \/ X_Header
  \/ X_Library
  \/ X_Ldflags
  \/ X_Bridging
  \/ C_DebugLdflags
  \/ C_ReleaseLdflags
  \/ C_DebugFlags
  \/ C_ReleaseFlags
  \/ F_OldLibs
  \/ F_Header
  \/ F_Library
  \/ F_Ldflags
  \/ F_Framework
  \/ WriteBack
  \/ Fail
  \/ Rerun

Spec == Init /\ [][Next]_vars


\* ------------------------------------------------- structure of a document
Range(q) == {q[i] : i \in 1..Len(q)}

\* The index of the "}" that closes the brace opened before i (d braces are
\* open at i), Len(c) + 1 when there is none.
RECURSIVE MatchClose(_, _, _)
MatchClose(c, i, d) ==
  IF i > Len(c) THEN Len(c) + 1
  ELSE IF c[i] \in OpenBrace THEN MatchClose(c, i + 1, d + 1)
  ELSE IF c[i] = RBRACE THEN (IF d = 1 THEN i ELSE MatchClose(c, i + 1, d - 1))
  ELSE MatchClose(c, i + 1, d)

\* The settings table of the block whose anchor is `start`: the text between
\* its "buildSettings = {" and the matching "}".
TableOf(c, start) ==
  LET a == CHOOSE i \in 1..Len(c) :
             MatchAt(c, start, i) /\ \A k \in 1..(i - 1) : ~MatchAt(c, start, k)
      b == a + Len(start) - 1
  IN SubSeq(c, b + 1, MatchClose(c, b + 1, 1) - 1)

BlockStarts == {debug_build_start, release_build_start}

\* The document without the text of its settings tables.
RECURSIVE OutsideFrom(_, _)
OutsideFrom(c, i) ==
  IF i > Len(c) THEN <<>>
  ELSE IF c[i] = BUILD_SETTINGS
       THEN <<c[i]>> \o OutsideFrom(c, MatchClose(c, i + 1, 1))
  ELSE <<c[i]>> \o OutsideFrom(c, i + 1)

OutsideTables(c) == OutsideFrom(c, 1)

\* Every closing token closes an opening one before it, and none stays open.
RECURSIVE Nested(_, _, _, _, _)
Nested(c, i, d, opening, closing) ==
  IF i > Len(c) THEN d = 0
  ELSE IF c[i] \in opening THEN Nested(c, i + 1, d + 1, opening, closing)
  ELSE IF c[i] \in closing
       THEN d > 0 /\ Nested(c, i + 1, d - 1, opening, closing)
  ELSE Nested(c, i + 1, d, opening, closing)

Balanced(c) ==
  /\ Nested(c, 1, 0, OpenBrace, {RBRACE})
  /\ Nested(c, 1, 0, {LPAREN}, {RPAREN})

RECURSIVE CountFrom(_, _, _)
CountFrom(c, p, i) ==
  IF i > Len(c) THEN 0
  ELSE IF MatchAt(c, p, i) THEN 1 + CountFrom(c, p, i + Len(p))
  ELSE CountFrom(c, p, i + 1)

Occurrences(c, p) == CountFrom(c, p, 1)

\* The elements of the parenthesised list of `key` in a table: the tokens
\* between the "(" after the key and the next ")", newlines and commas apart.
ListOf(t, key) ==
  LET k == FirstIn(t, 1, {key})
      o == FirstIn(t, k + 1, {LPAREN})
      e == FirstIn(t, o + 1, {RPAREN})
  IN SelectSeq(SubSeq(t, o + 1, e - 1),
               LAMBDA x : x \notin NewlineTokens \cup {COMMA})

HasList(t, key) ==
  LET k == FirstIn(t, 1, {key})
  IN k + 1 <= Len(t) /\ t[k + 1] = LPAREN

Disk == fs[project_path].text
AfterBackup == PatchSteps \cup {"write", "done"}

\* ------------------------------------------------------------ the claims

\* C1  Idempotency: the second run of a script, on the output of its first
\* run, leaves the document as the first run left it and ends with the change
\* flag false.
C1_Idempotent ==
  (pc = "done" /\ run = 2) => (Disk = loaded /\ ~modified)

\* C2  Write-backup-first: the project file changes only in the last step of
\* a run (the write-back, which ends the run), and by then the backup holds the
\* text exactly as it was read and the project file still holds that text; the
\* write-back leaves the backup as it is.  So a run that stops anywhere before
\* leaves the project file as it was.
C2_WriteBackupFirst ==
  /\ [](pc \in AfterBackup => fs[backup_path(script)] = File(loaded))
  /\ [][ fs'[project_path] # fs[project_path] =>
           /\ pc = "write"
           /\ pc' \in {"done", "failed"}
           /\ fs[project_path] = File(loaded)
           /\ fs[backup_path(script)] = File(loaded)
           /\ fs'[backup_path(script)] = File(loaded) ]_vars

\* A finished run that changed the project file, with the backup holding the
\* text as read.
C2_Witness ==
  /\ pc = "done"
  /\ Disk # loaded
  /\ fs[backup_path(script)] = File(loaded)

\* C3  Span containment: whatever a run has done to the text, the text outside
\* the settings tables is the text that was read.
C3_SpanContainment ==
  pc \in AfterBackup => OutsideTables(content) = OutsideTables(loaded)

\* C4  The change flag of xcode_project and xcframework is true exactly when
\* the text in memory differs from the text that was read, and a run writes the
\* project file only when the text differs.
C4_FlagIffChanged ==
  /\ (pc \in {"write", "done"} /\ script # "conditional_linking")
       => (modified <=> content # loaded)
  /\ (pc = "done" /\ "Project configuration updated" \in report)
       => content # loaded

\* C5  Insert on missing key: when the HEADER_SEARCH_PATHS step of
\* xcode_project (the FRAMEWORK_SEARCH_PATHS step of xcframework) runs, every
\* block whose settings table lacks the key gets the line `key = value;` right
\* after "buildSettings = {", before the settings it had, which stay as they
\* were.
C5_InsertOnMissingKey ==
  [][ \A b \in BlockStarts :
        /\ (/\ pc = "x_header" /\ pc' = "x_library"
            /\ Occurs(content, b)
            /\ K_HEADER \notin Range(TableOf(content, b)))
           => TableOf(content', b)
                = SettingLine(K_HEADER, X_HEADER_VALUE) \o TableOf(content, b)
        /\ (/\ pc = "f_framework" /\ pc' = "write"
            /\ Occurs(content, b)
            /\ K_FRAMEWORK \notin Range(TableOf(content, b)))
           => TableOf(content', b)
                = SettingLine(K_FRAMEWORK, framework_search_path)
                    \o TableOf(content, b) ]_vars

\* C6  Append-to-list: when the HEADER_SEARCH_PATHS step of xcode_project runs
\* on a block whose table holds the key with a list, the table stays as it is
\* if the include path is an element of the list, and otherwise the list gets
\* the include path as its last element, after the elements it had.
C6_AppendToList ==
  [][ \A b \in BlockStarts :
        (/\ pc = "x_header" /\ pc' = "x_library"
         /\ Occurs(content, b)
         /\ K_HEADER \in Range(TableOf(content, b))
         /\ HasList(TableOf(content, b), K_HEADER))
        => IF X_HEADER_VALUE \in Range(ListOf(TableOf(content, b), K_HEADER))
           THEN TableOf(content', b) = TableOf(content, b)
           ELSE ListOf(TableOf(content', b), K_HEADER)
                  = Append(ListOf(TableOf(content, b), K_HEADER), X_HEADER_VALUE)
    ]_vars

\* C7  Block not found: in conditional_linking, a step named after a block
\* whose anchor is not in the text changes neither the text nor the report;
\* in xcframework, the HEADER_SEARCH_PATHS step on a text with no
\* "buildSettings = {" changes neither the text, the report nor the flag.
C7_BlockNotFound ==
  [][ /\ (/\ pc = "f_header" /\ pc' = "f_library"
          /\ BUILD_SETTINGS \notin Range(content))
         => (content' = content /\ report' = report /\ modified' = modified)
      /\ (/\ pc \in {"c_debug_ldflags", "c_debug_flags"}
          /\ pc' # "failed"
          /\ ~Occurs(content, debug_build_start))
         => (content' = content /\ report' = report)
      /\ (/\ pc \in {"c_release_ldflags", "c_release_flags"}
          /\ pc' # "failed"
          /\ ~Occurs(content, release_build_start))
         => (content' = content /\ report' = report) ]_vars

\* C8  Brace balance: a finished run that read a text with balanced braces and
\* parentheses leaves a text with balanced braces and parentheses.
C8_BalancePreserved ==
  (pc = "done" /\ Balanced(loaded)) => Balanced(Disk)

\* C9  Per-block existence check: after a first run of xcode_project every
\* block of the document holds HEADER_SEARCH_PATHS in its settings table, and
\* after a first run of xcframework every block holds FRAMEWORK_SEARCH_PATHS.
C9_EveryBlockHoldsKey ==
  \A b \in BlockStarts :
    (pc = "done" /\ run = 1 /\ Occurs(loaded, b)) =>
      /\ script = "xcode_project" => K_HEADER \in Range(TableOf(Disk, b))
      /\ script = "xcframework" => K_FRAMEWORK \in Range(TableOf(Disk, b))

\* C10  conditional_linking: when the Release OTHER_LDFLAGS step is reached
\* the static-library list occurs nowhere in the text, and the step changes
\* neither the text nor the report (Release is never reported as updated).
C10_ReleaseStepIdle ==
  /\ [](pc = "c_release_ldflags" => ~Occurs(content, release_pattern))
  /\ [][ pc = "c_release_ldflags" =>
           /\ content' = content
           /\ report' = report
           /\ "Updated Release OTHER_LDFLAGS" \notin report' ]_vars

\* The Release step is reached after the Debug step replaced the list in a
\* text that held it twice.
C10_Witness ==
  /\ pc = "c_release_ldflags"
  /\ "Updated Debug OTHER_LDFLAGS" \in report
  /\ Occurrences(loaded, debug_pattern) >= 2
  /\ Occurrences(content, conditional_ldflags) >= 2

====
